---- MODULE Spec2Model ----
(***************************************************************************)
(* xscreensaver-suspend: the control loop of src/main.rs that watches the  *)
(* output of `xscreensaver-command -watch` and suspends the machine once   *)
(* the screen has been locked for longer than the configured thresholds.   *)
(*                                                                         *)
(* Time is counted in whole seconds.  An Instant is a number of seconds    *)
(* since the process started; a SystemTime is BootWall plus that number.   *)
(* Option<T> is a sequence of length 0 (None) or 1 (Some(x)).  A line of   *)
(* text is a sequence of one-character strings.                            *)
(***************************************************************************)
EXTENDS Integers, Sequences, FiniteSets, TLC

\* ------------------------------------------------------------------ bounds
\* The grid on which time advances while the loop waits in recv_timeout.
TickStep == 5
\* The clock stops advancing here.
MaxTime == 200
\* The same for the runs that are checked under fairness.
FairMaxTime == 70
\* The event source emits at most this many lines.
MaxLines == 2
\* The same for the runs that follow one lock session, whose clock stops
\* advancing at SessionMaxTime.
SessionLines == 1
SessionMaxTime == 400
\* Wall-clock time (seconds) at which the process started.
BootWall == 100000
\* The generated values of the configuration have at most MaxValueLen
\* characters, the configurations at most MaxConfigLines lines.
MaxValueLen == 3
MaxConfigLines == 2

\* ------------------------------------------------------- program constants
\* rx.recv_timeout(Duration::from_secs(5))
PollInterval == 5
\* settings.password_timeout * 3
PasswordFactor == 3
\* Duration::from_secs((8 * 60 * 60) as u64)
NoSuspendLifetime == 8 * 60 * 60

\* ------------------------------------------------------------------ inputs
\* The lines the event source may print.
LineLock == <<"L", "O", "C", "K", " ", "1">>
LineUnblank == <<"U", "N", "B", "L", "A", "N", "K">>
LineUnlock == <<"U", "N", "L", "O", "C", "K">>
Lines == {LineLock, LineUnblank, LineUnlock}

\* Values parse_time can give to dpms_off and password_timeout (multiples
\* of 60 seconds: the minutes field of h:mm:ss counts 60, see parse_time).
DpmsOffValues == {0, 60}
PasswordTimeoutValues == {0, 60}

\* How long the loop may be delayed between the return of recv_timeout and
\* the reading of the clock by elapsed() / Instant::now() in the match.
Stalls == {0, TickStep}

\* Outcome of metadata(~/.no_suspend).and_then(|m| m.modified()): an io
\* error, or a modification time, given here by its age when the process
\* started (negative: a modification time in the future).  The third is
\* exactly eight hours old TickStep seconds into the run, the fourth
\* already older at the start.
ReadError == [ok |-> FALSE, modified |-> 0]
Modified(m) == [ok |-> TRUE, modified |-> m]
MarkerAges ==
    {0 - 3600, 3600, NoSuspendLifetime - TickStep, NoSuspendLifetime + 1}

\* ------------------------------------------------------------------ Option
None == <<>>
Some(x) == <<x>>
Unit == <<>>
IsSome(o) == Len(o) = 1
IsNone(o) == Len(o) = 0
Unwrap(o) == o[1]

VARIABLES
    pc,           \* "load", "load_failed" (a panic in load()), "start",
                  \* "loop", "exited" (exit(1)), "panicked" (in the loop)
    settings,     \* XscreensaverSettings, as loaded
    now,          \* the monotonic clock
    horizon,      \* the value at which the clock stops advancing
    quota,        \* the number of lines after which the source prints no more
    waited,       \* seconds spent in the current recv_timeout
    timer,        \* Option<Instant>
    locked,       \* Option<()>
    chan,         \* the mpsc channel: lines sent and not yet received
    disconnected, \* the Sender has been dropped (producer thread ended)
    produced,     \* every line the producer thread has sent, in order
    consumed,     \* every line recv_timeout has returned, in order
    last,         \* what the last loop iteration did
    config,       \* the lines of ~/.xscreensaver being loaded
    cursor,       \* the index of the next line load() looks at
    parsed        \* the last call of parse_bool or parse_time

\* What bounds a run, and what load() works on.
limits == <<horizon, quota>>
loader == <<config, cursor, parsed>>

vars == <<pc, settings, now, horizon, quota, waited, timer, locked, chan,
          disconnected, produced, consumed, last, config, cursor, parsed>>

\* ------------------------------------------------------------ pure helpers
\* str::contains
Contains(s, pat) ==
    \E i \in 1..(Len(s) - Len(pat) + 1) : SubSeq(s, i, i + Len(pat) - 1) = pat

LOCK == <<"L", "O", "C", "K">>

\* Send as a stack would: the newest line is received first.
SendFront(q, line) == <<line>> \o q

\* mpsc::channel: Sender::send appends, the Receiver takes from the front.
Send(q, line) == Append(q, line)
Front(q) == Head(q)
Rest(q) == Tail(q)

\* AfterEvent with a lock event clearing the marker.
AfterEventLockClearsMarker(status, t, l, at) ==
    IF IsSome(status)
    THEN [timer |-> IF Contains(Unwrap(status), LOCK) THEN Some(at) ELSE None,
          locked |-> None]
    ELSE [timer |-> t, locked |-> l]

\* AfterEvent with an Other event clearing the lock timer only.
AfterEventOtherKeepsMarker(status, t, l, at) ==
    IF IsSome(status)
    THEN [timer |-> IF Contains(Unwrap(status), LOCK) THEN Some(at) ELSE None,
          locked |-> l]
    ELSE [timer |-> t, locked |-> l]

\* AfterEvent with an Other event clearing the marker only.
AfterEventOtherKeepsTimer(status, t, l, at) ==
    IF IsSome(status)
    THEN IF Contains(Unwrap(status), LOCK)
         THEN [timer |-> Some(at), locked |-> l]
         ELSE [timer |-> t, locked |-> None]
    ELSE [timer |-> t, locked |-> l]

\* AfterEvent with a lock event that leaves a lock timer already set alone.
AfterEventLockKeepsTimer(status, t, l, at) ==
    IF IsSome(status)
    THEN IF Contains(Unwrap(status), LOCK)
         THEN [timer |-> IF IsSome(t) THEN t ELSE Some(at), locked |-> l]
         ELSE [timer |-> None, locked |-> None]
    ELSE [timer |-> t, locked |-> l]

\* The first match of the loop: the effect of the received status, if any,
\* on (timer, locked).  at is the value of Instant::now().
AfterEvent(status, t, l, at) ==
    IF IsSome(status)
    THEN IF Contains(Unwrap(status), LOCK)
         THEN [timer |-> Some(at), locked |-> l]
         ELSE [timer |-> None, locked |-> None]
    ELSE [timer |-> t, locked |-> l]

\* The password threshold without the factor of three.
password_timeout_raw(s) == s.password_timeout

\* let password_timeout = settings.password_timeout * 3;
password_timeout(s) == s.password_timeout * PasswordFactor

\* Instant::elapsed, the clock reading at.
Elapsed(time, at) == at - time

\* Evaluate with >= for > in both guards.
EvaluateNonStrict(t, l, at, s) ==
    IF IsSome(t) /\ IsNone(l) /\ at - Unwrap(t) >= s.dpms_off
    THEN [timer |-> None, locked |-> Some(Unit), branch |-> "dpms", calls |-> 1]
    ELSE IF IsSome(t) /\ IsSome(l) /\ at - Unwrap(t) >= 3 * s.password_timeout
    THEN [timer |-> None, locked |-> Some(Unit), branch |-> "passwd",
          calls |-> 1]
    ELSE IF IsNone(t) /\ IsSome(l)
    THEN [timer |-> Some(at), locked |-> l, branch |-> "woken", calls |-> 0]
    ELSE [timer |-> t, locked |-> l, branch |-> "none", calls |-> 0]

\* Evaluate with the suspending arms leaving the lock timer set.
EvaluateKeepsTimer(t, l, at, s) ==
    IF IsSome(t) /\ IsNone(l) /\ at - Unwrap(t) > s.dpms_off
    THEN [timer |-> t, locked |-> Some(Unit), branch |-> "dpms", calls |-> 1]
    ELSE IF IsSome(t) /\ IsSome(l) /\ at - Unwrap(t) > 3 * s.password_timeout
    THEN [timer |-> t, locked |-> Some(Unit), branch |-> "passwd", calls |-> 1]
    ELSE IF IsNone(t) /\ IsSome(l)
    THEN [timer |-> Some(at), locked |-> l, branch |-> "woken", calls |-> 0]
    ELSE [timer |-> t, locked |-> l, branch |-> "none", calls |-> 0]

\* Evaluate without the arm that re-arms the lock timer.
EvaluateNoRearm(t, l, at, s) ==
    IF IsSome(t) /\ IsNone(l) /\ at - Unwrap(t) > s.dpms_off
    THEN [timer |-> None, locked |-> Some(Unit), branch |-> "dpms", calls |-> 1]
    ELSE IF IsSome(t) /\ IsSome(l) /\ at - Unwrap(t) > 3 * s.password_timeout
    THEN [timer |-> None, locked |-> Some(Unit), branch |-> "passwd",
          calls |-> 1]
    ELSE [timer |-> t, locked |-> l, branch |-> "none", calls |-> 0]

\* The second match of the loop, on (timer, locked), the clock reading at:
\* the new (timer, locked), the arm taken and the number of suspend() calls.
Evaluate(t, l, at, s) ==
    IF IsSome(t) /\ IsNone(l) /\ Elapsed(Unwrap(t), at) > s.dpms_off
    THEN [timer |-> None, locked |-> Some(Unit), branch |-> "dpms", calls |-> 1]
    ELSE IF IsSome(t) /\ IsSome(l) /\ Elapsed(Unwrap(t), at) > password_timeout(s)
    THEN [timer |-> None, locked |-> Some(Unit), branch |-> "passwd",
          calls |-> 1]
    ELSE IF IsNone(t) /\ IsSome(l)
    THEN [timer |-> Some(at), locked |-> l, branch |-> "woken", calls |-> 0]
    ELSE [timer |-> t, locked |-> l, branch |-> "none", calls |-> 0]

\* inhibit_suspend with > for >=.
inhibit_suspend_strict(marker, wall) ==
    marker.ok /\ marker.modified > wall - (8 * 60 * 60)

\* inhibit_suspend: marker is the outcome of reading the modification time,
\* wall the value of SystemTime::now().
inhibit_suspend(marker, wall) ==
    IF marker.ok
    THEN marker.modified >= wall - NoSuspendLifetime
    ELSE FALSE

\* ------------------------------------------------------------------- Init
NoIteration ==
    [recv |-> "Timeout", status |-> None,
     entry_timer |-> None, entry_locked |-> None,
     eval_timer |-> None, eval_locked |-> None, at |-> 0,
     branch |-> "none", calls |-> 0,
     marker |-> ReadError, inhibited |-> FALSE, cmds |-> 0]

\* No call of a parser yet.
NoParse == [fn |-> "none", line |-> <<>>, ok |-> TRUE, value |-> 0]

InitAt(h, q) ==
    /\ pc = "start"
    /\ horizon = h
    /\ quota = q
    /\ config = <<>>
    /\ cursor = 1
    /\ parsed = NoParse
    /\ settings \in [dpms_enabled : BOOLEAN,
                     dpms_off : DpmsOffValues,
                     password_timeout : PasswordTimeoutValues]
    /\ now = 0
    /\ waited = 0
    /\ timer = None
    /\ locked = None
    /\ chan = <<>>
    /\ disconnected = FALSE
    /\ produced = <<>>
    /\ consumed = <<>>
    /\ last = NoIteration

Init == InitAt(MaxTime, MaxLines)
FairInit == InitAt(FairMaxTime, MaxLines)

\* ---------------------------------------------------------------- actions
\* main, before the loop: exit(1) unless dpmsEnabled, else start the watch.
Startup ==
    /\ pc = "start"
    /\ pc' = IF settings.dpms_enabled THEN "loop" ELSE "exited"
    /\ UNCHANGED <<settings, now, limits, waited, timer, locked, chan,
                   disconnected, produced, consumed, last, loader>>

\* The producer thread: lines.next() gave Some(Ok(line)); tx.send(line).
Produce(line) ==
    /\ pc = "loop"
    /\ ~disconnected
    /\ Len(produced) < quota
    /\ chan' = Send(chan, line)
    /\ produced' = Append(produced, line)
    /\ UNCHANGED <<pc, settings, now, limits, waited, timer, locked,
                   disconnected, consumed, last, loader>>

\* The producer thread: lines.next() gave None or an error; the closure
\* returns and tx is dropped.
ProducerExit ==
    /\ pc = "loop"
    /\ ~disconnected
    /\ disconnected' = TRUE
    /\ UNCHANGED <<pc, settings, now, limits, waited, timer, locked, chan,
                   produced, consumed, last, loader>>

\* Time passes while the loop is blocked in recv_timeout on an empty,
\* connected channel.
Tick ==
    /\ pc = "loop"
    /\ chan = <<>>
    /\ ~disconnected
    /\ waited < PollInterval
    /\ now + TickStep <= horizon
    /\ now' = now + TickStep
    /\ waited' = waited + TickStep
    /\ UNCHANGED <<pc, settings, limits, timer, locked, chan, disconnected,
                   produced, consumed, last, loader>>

\* The modification times ~/.no_suspend may be found with.
Markers ==
    {ReadError} \cup {Modified(BootWall - a) : a \in MarkerAges}

\* suspend() issuing the command before looking at the inhibitor.
suspendThenCheck(marker, wall, spawn_ok) ==
    [inhibited |-> marker.ok /\ marker.modified >= wall - (8 * 60 * 60),
     cmds |-> 1, panicked |-> ~spawn_ok]

\* suspend(): the command is spawned unless inhibit_suspend() holds; a spawn
\* that fails panics in expect("Suspending").  marker and spawn_ok are what
\* the file system and the process table answer; cmds is the number of
\* times the suspend command is issued (Command::spawn is called).
suspend(marker, wall, spawn_ok) ==
    IF inhibit_suspend(marker, wall)
    THEN [inhibited |-> TRUE, cmds |-> 0, panicked |-> FALSE]
    ELSE [inhibited |-> FALSE, cmds |-> 1, panicked |-> ~spawn_ok]

\* The loop body with the timers evaluated before the event is applied.
IterateTimersFirst(recv, status, stall) ==
    LET at == now + stall
        r == Evaluate(timer, locked, at, settings)
        ev == AfterEvent(status, r.timer, r.locked, at)
        seen == [recv |-> recv, status |-> status,
                 entry_timer |-> timer, entry_locked |-> locked,
                 eval_timer |-> timer, eval_locked |-> locked,
                 at |-> at, branch |-> r.branch, calls |-> r.calls]
    IN  /\ at <= horizon
        /\ timer' = ev.timer
        /\ locked' = ev.locked
        /\ now' = at
        /\ waited' = 0
        /\ IF r.calls > 0
           THEN \E marker \in Markers, spawn_ok \in BOOLEAN :
                    LET s == suspend(marker, BootWall + at, spawn_ok)
                    IN  /\ pc' = IF s.panicked THEN "panicked" ELSE "loop"
                        /\ last' = seen @@ [marker |-> marker,
                                            inhibited |-> s.inhibited,
                                            cmds |-> s.cmds]
           ELSE /\ pc' = "loop"
                /\ last' = seen @@ [marker |-> ReadError,
                                    inhibited |-> FALSE, cmds |-> 0]
        /\ UNCHANGED <<settings, limits, disconnected, produced, loader>>

\* The body of the loop once recv_timeout has returned: recv is "Ok",
\* "Timeout" or "Disconnected", status is Some(line) for Ok(line) and None
\* for an Err.  Both matches, and suspend() as often as the branch taken
\* calls it.  stall is the delay between the return of recv_timeout and the
\* reading of the clock in the second match.
Iterate(recv, status, stall) ==
    LET ev == AfterEvent(status, timer, locked, now)
        at == now + stall
        r == Evaluate(ev.timer, ev.locked, at, settings)
        seen == [recv |-> recv, status |-> status,
                 entry_timer |-> timer, entry_locked |-> locked,
                 eval_timer |-> ev.timer, eval_locked |-> ev.locked,
                 at |-> at, branch |-> r.branch, calls |-> r.calls]
    IN  /\ at <= horizon
        /\ timer' = r.timer
        /\ locked' = r.locked
        /\ now' = at
        /\ waited' = 0
        /\ IF r.calls > 0
           THEN \E marker \in Markers, spawn_ok \in BOOLEAN :
                    LET s == suspend(marker, BootWall + at, spawn_ok)
                    IN  /\ pc' = IF s.panicked THEN "panicked" ELSE "loop"
                        /\ last' = seen @@ [marker |-> marker,
                                            inhibited |-> s.inhibited,
                                            cmds |-> s.cmds]
           ELSE /\ pc' = "loop"
                /\ last' = seen @@ [marker |-> ReadError,
                                    inhibited |-> FALSE, cmds |-> 0]
        /\ UNCHANGED <<settings, limits, disconnected, produced, loader>>

\* recv_timeout returns Ok(line).
RecvLine ==
    /\ pc = "loop"
    /\ chan # <<>>
    /\ chan' = Rest(chan)
    /\ consumed' = Append(consumed, Front(chan))
    /\ \E stall \in Stalls : Iterate("Ok", Some(Front(chan)), stall)

\* recv_timeout returns Err(Timeout).
RecvTimeout ==
    /\ pc = "loop"
    /\ chan = <<>>
    /\ ~disconnected
    /\ waited >= PollInterval
    /\ UNCHANGED <<chan, consumed>>
    /\ \E stall \in Stalls : Iterate("Timeout", None, stall)

\* A loop that leaves when the channel is disconnected.
RecvDisconnectedEnds ==
    /\ pc = "loop"
    /\ chan = <<>>
    /\ disconnected
    /\ pc' = "exited"
    /\ UNCHANGED <<settings, now, limits, waited, timer, locked, chan,
                   disconnected, produced, consumed, last, loader>>

\* recv_timeout returns Err(Disconnected), at once.
RecvDisconnected ==
    /\ pc = "loop"
    /\ chan = <<>>
    /\ disconnected
    /\ UNCHANGED <<chan, consumed>>
    /\ \E stall \in Stalls : Iterate("Disconnected", None, stall)

Next ==
    \/ Startup
    \/ \E line \in Lines : Produce(line)
    \/ ProducerExit
    \/ Tick
    \/ RecvLine
    \/ RecvTimeout
    \/ RecvDisconnected

Spec == Init /\ [][Next]_vars

\* The main thread keeps running and the clock keeps advancing: a blocked
\* recv_timeout returns when a line is there or the timeout is over, and
\* the passes of a loop that spins on a disconnected channel do not all
\* read the same clock value.
Fairness ==
    /\ WF_vars(Tick)
    /\ WF_vars(RecvLine)
    /\ WF_vars(RecvTimeout)
    /\ WF_vars(RecvDisconnected)
    /\ WF_vars(RecvDisconnected /\ now' > now)

FairSpec == FairInit /\ [][Next]_vars /\ Fairness

TypeOK ==
    /\ pc \in {"load", "load_failed", "start", "loop", "exited", "panicked"}
    /\ now \in 0..horizon
    /\ timer = None \/ (IsSome(timer) /\ Unwrap(timer) \in 0..now)
    /\ locked \in {None, Some(Unit)}

\* ------------------------------------------------------------ configuration
\* Text is a sequence of characters.
UpperCase == <<"A", "B", "C", "D", "E", "F", "G", "H", "I", "J", "K", "L", "M", "N", "O", "P", "Q", "R", "S", "T", "U", "V", "W", "X", "Y", "Z">>
LowerCase == <<"a", "b", "c", "d", "e", "f", "g", "h", "i", "j", "k", "l", "m", "n", "o", "p", "q", "r", "s", "t", "u", "v", "w", "x", "y", "z">>
Digits == <<"0", "1", "2", "3", "4", "5", "6", "7", "8", "9">>
WhiteSpace == {" ", "\t"}

\* The three key names load() looks for.
KeyEnabled == <<"d", "p", "m", "s", "E", "n", "a", "b", "l", "e", "d">>
KeyOff == <<"d", "p", "m", "s", "O", "f", "f">>
KeyPasswd == <<"p", "a", "s", "s", "w", "d", "T", "i", "m", "e", "o", "u", "t">>

\* char::to_lowercase and str::to_lowercase.
Lower(c) ==
    IF \E i \in 1..26 : UpperCase[i] = c
    THEN LowerCase[CHOOSE i \in 1..26 : UpperCase[i] = c]
    ELSE c
to_lowercase(s) == [i \in 1..Len(s) |-> Lower(s[i])]

\* str::trim.
RECURSIVE trim_start(_)
trim_start(s) ==
    IF s # <<>> /\ s[1] \in WhiteSpace THEN trim_start(Tail(s)) ELSE s
RECURSIVE trim_end(_)
trim_end(s) ==
    IF s # <<>> /\ s[Len(s)] \in WhiteSpace
    THEN trim_end(SubSeq(s, 1, Len(s) - 1))
    ELSE s
trim(s) == trim_end(trim_start(s))

\* The index of the first colon of s, 0 if it has none.
FirstColon(s) ==
    IF \E i \in 1..Len(s) : s[i] = ":"
    THEN CHOOSE i \in 1..Len(s) :
             s[i] = ":" /\ \A j \in 1..(i - 1) : s[j] # ":"
    ELSE 0

\* str::split(':'): the fields between the colons, from the left.
RECURSIVE split(_)
split(s) ==
    LET i == FirstColon(s)
    IN  IF i = 0
        THEN <<s>>
        ELSE <<SubSeq(s, 1, i - 1)>> \o split(SubSeq(s, i + 1, Len(s)))

\* str::rsplit(':'): the same fields, from the right.
rsplit(s) ==
    LET f == split(s)
    IN  [k \in 1..Len(f) |-> f[Len(f) + 1 - k]]

\* str::parse::<bool>.
parse_str_bool(s) ==
    IF s = <<"t", "r", "u", "e">> THEN Some(TRUE)
    ELSE IF s = <<"f", "a", "l", "s", "e">> THEN Some(FALSE)
    ELSE None

\* The value of a string of decimal digits.
RECURSIVE Decimal(_)
Decimal(d) ==
    IF d = <<>>
    THEN 0
    ELSE 10 * Decimal(SubSeq(d, 1, Len(d) - 1))
         + (CHOOSE v \in 0..9 : Digits[v + 1] = d[Len(d)])

\* str::parse::<u64>: an optional "+" and then digits, at least one, and
\* nothing else.  (The texts parsed here have few digits, so the bound of
\* u64 plays no part.)
parse_u64(s) ==
    LET d == IF s # <<>> /\ s[1] = "+" THEN Tail(s) ELSE s
    IN  IF d # <<>> /\ \A i \in 1..Len(d) : \E v \in 1..10 : Digits[v] = d[i]
        THEN Some(Decimal(d))
        ELSE None

\* Iterator::sum.
RECURSIVE sum(_)
sum(q) == IF q = <<>> THEN 0 ELSE q[1] + sum(Tail(q))

\* The result of a parser: ok is FALSE when an expect() panics.
Failed == [ok |-> FALSE, value |-> 0]
Parsed(v) == [ok |-> TRUE, value |-> v]

\* parse_bool with the text after the first colon instead of the last.
parse_bool_first(line) ==
    LET f == split(line)
        r == parse_str_bool(
                 to_lowercase(trim(f[IF Len(f) > 1 THEN 2 ELSE 1])))
    IN  IF IsSome(r) THEN Parsed(Unwrap(r)) ELSE [ok |-> FALSE, value |-> FALSE]

\* parse_bool: line.split(':').last() always is Some, so only the parse of
\* the trimmed, lower-cased last field can fail.
parse_bool(line) ==
    LET f == split(line)
        r == parse_str_bool(to_lowercase(trim(f[Len(f)])))
    IN  IF IsSome(r) THEN Parsed(Unwrap(r)) ELSE [ok |-> FALSE, value |-> FALSE]

\* 60 to the power i.
RECURSIVE pow60(_)
pow60(i) == IF i = 0 THEN 1 ELSE 60 * pow60(i - 1)

\* parse_time with the fields weighted 1, 60, 3600.
parse_time_sexagesimal(line) ==
    LET c == FirstColon(line)
    IN  IF c = 0
        THEN Failed
        ELSE LET f == rsplit(SubSeq(line, c + 1, Len(line)))
                 n == [k \in 1..Len(f) |-> parse_u64(trim(f[k]))]
             IN  IF \E k \in 1..Len(f) : n[k] = None
                 THEN Failed
                 ELSE Parsed(sum([k \in 1..Len(f) |->
                                     Unwrap(n[k]) * pow60(k - 1)]))

\* parse_time: splitn(2, ':').skip(1) is empty for a line without a colon
\* and expect("Get time") panics; else the fields of the rest, from the
\* right and numbered from 0, are trimmed, parsed (expect("Parse time as
\* u64")) and multiplied by 60 * i, and the products summed.  The value is
\* the number of seconds of the Duration.
parse_time(line) ==
    LET c == FirstColon(line)
    IN  IF c = 0
        THEN Failed
        ELSE LET f == rsplit(SubSeq(line, c + 1, Len(line)))
                 n == [k \in 1..Len(f) |-> parse_u64(trim(f[k]))]
             IN  IF \E k \in 1..Len(f) : n[k] = None
                 THEN Failed
                 ELSE Parsed(sum([k \in 1..Len(f) |->
                                     Unwrap(n[k]) * (60 * (k - 1))]))

\* XscreensaverSettings::default().
DefaultSettings ==
    [dpms_enabled |-> FALSE, dpms_off |-> 0, password_timeout |-> 0]

\* The body of the for loop of load() with the arm of dpmsOff tried first.
load_line_off_first(s, line) ==
    IF Contains(line, KeyOff)
    THEN LET r == parse_time(line)
         IN  [fn |-> "parse_time", ok |-> r.ok, value |-> r.value,
              settings |-> IF r.ok THEN [s EXCEPT !.dpms_off = r.value]
                                   ELSE s]
    ELSE IF Contains(line, KeyEnabled)
    THEN LET r == parse_bool(line)
         IN  [fn |-> "parse_bool", ok |-> r.ok, value |-> r.value,
              settings |-> IF r.ok THEN [s EXCEPT !.dpms_enabled = r.value]
                                   ELSE s]
    ELSE IF Contains(line, KeyPasswd)
    THEN LET r == parse_time(line)
         IN  [fn |-> "parse_time", ok |-> r.ok, value |-> r.value,
              settings |-> IF r.ok
                           THEN [s EXCEPT !.password_timeout = r.value]
                           ELSE s]
    ELSE [fn |-> "none", ok |-> TRUE, value |-> 0, settings |-> s]

\* The body of the for loop of load(): the first arm whose key name the
\* line contains parses the line into its field; the last arm does nothing.
load_line(s, line) ==
    IF Contains(line, KeyEnabled)
    THEN LET r == parse_bool(line)
         IN  [fn |-> "parse_bool", ok |-> r.ok, value |-> r.value,
              settings |-> IF r.ok THEN [s EXCEPT !.dpms_enabled = r.value]
                                   ELSE s]
    ELSE IF Contains(line, KeyOff)
    THEN LET r == parse_time(line)
         IN  [fn |-> "parse_time", ok |-> r.ok, value |-> r.value,
              settings |-> IF r.ok THEN [s EXCEPT !.dpms_off = r.value]
                                   ELSE s]
    ELSE IF Contains(line, KeyPasswd)
    THEN LET r == parse_time(line)
         IN  [fn |-> "parse_time", ok |-> r.ok, value |-> r.value,
              settings |-> IF r.ok
                           THEN [s EXCEPT !.password_timeout = r.value]
                           ELSE s]
    ELSE [fn |-> "none", ok |-> TRUE, value |-> 0, settings |-> s]

\* ------------------------------------------------- configuration inputs
\* The characters of the generated values, and every text of at most n of
\* them.
ValueChars == {"0", "1", "2", ":", " ", "x", "+", "-"}
RECURSIVE Texts(_)
Texts(n) ==
    IF n = 0
    THEN {<<>>}
    ELSE LET S == Texts(n - 1)
         IN  S \cup {Append(t, c) : t \in S, c \in ValueChars}

\* Values of more fields and digits, as xscreensaver writes them.
LongValues ==
    {<<"0", ":", "0", ":", "5">>,
     <<"1", ":", "0", ":", "0">>,
     <<"0", ":", "1", "0", ":", "0", "0">>,
     <<"2", ":", "1", ":", "7">>,
     <<"4", ":", "0", "0", ":", "0", "0">>,
     <<" ", "0", ":", "0", "2", ":", "0", "0", " ">>,
     <<"1", ":", "+", "2", ":", "x">>,
     <<"1", "2", ":", "0">>}

\* The lines parse_time is tried on: a key name, with and without the
\* colon that ends it, and a value.
TimeLines ==
    {k \o s \o v : k \in {KeyOff, KeyPasswd},
                   s \in {<<>>, <<":">>, <<":", "\t">>},
                   v \in Texts(MaxValueLen) \cup LongValues}

\* What may follow the key name of the flag.
BoolTails ==
    {<<"t", "r", "u", "e">>,
     <<"T", "r", "u", "e">>,
     <<"T", "R", "U", "E">>,
     <<"t", "R", "u", "E">>,
     <<"f", "a", "l", "s", "e">>,
     <<"F", "a", "l", "s", "e">>,
     <<"F", "A", "L", "S", "E">>,
     <<" ", "t", "r", "u", "e", " ">>,
     <<"\t", "f", "a", "l", "s", "e">>,
     <<"T", "r", "u", "e", "\t">>,
     <<>>,
     <<"t">>,
     <<"t", "r", "u">>,
     <<"t", "r", "u", "e", "e">>,
     <<"y", "e", "s">>,
     <<"1">>,
     <<"0">>,
     <<"o", "n">>,
     <<"t", "r", "u", "e", ":">>,
     <<"t", "r", "u", "e", ":", " ">>,
     <<"x", ":", "t", "r", "u", "e">>,
     <<"t", "r", "u", "e", ":", "f", "a", "l", "s", "e">>,
     <<"f", "a", "l", "s", "e", ":", "T", "R", "U", "E">>,
     <<"f", "a", "l", " ", "s", "e">>}

\* The lines parse_bool is tried on.
BoolLines ==
    {p \o t : p \in {KeyEnabled, KeyEnabled \o <<":">>,
                     KeyEnabled \o <<":", "\t">>,
                     <<"*", ":">> \o KeyEnabled \o <<" ", ":", " ">>,
                     <<"t", "r", "u", "e", " ">> \o KeyEnabled},
              t \in BoolTails}

\* Lines that contain none of the key names.
OtherLines ==
    {<<>>,
     <<"t", "i", "m", "e", "o", "u", "t", ":", "\t", "0", ":", "1", "0", ":", "0", "0">>,
     <<"d", "p", "m", "s", "S", "t", "a", "n", "d", "b", "y", ":", " ", "2", ":", "0", "0", ":", "0", "0">>,
     <<"d", "p", "m", "s", "e", "n", "a", "b", "l", "e", "d", ":", " ", "t", "r", "u", "e">>,
     <<"d", "p", "m", "s", " ", "O", "f", "f", ":", " ", "1", ":", "0">>,
     <<"p", "a", "s", "s", "w", "d", "T", "i", "m", "e", "o", "u", ":", " ", "2", ":", "0">>,
     <<"t", "r", "u", "e">>,
     <<"L", "O", "C", "K">>}

\* Lines that contain two of the key names.
TwoKeyLines ==
    {<<"d", "p", "m", "s", "O", "f", "f", " ", "d", "p", "m", "s", "E", "n", "a", "b", "l", "e", "d", ":", " ", "t", "r", "u", "e">>,
     <<"p", "a", "s", "s", "w", "d", "T", "i", "m", "e", "o", "u", "t", " ", "d", "p", "m", "s", "O", "f", "f", ":", " ", "1", ":", "0">>,
     <<"d", "p", "m", "s", "E", "n", "a", "b", "l", "e", "d", " ", "d", "p", "m", "s", "O", "f", "f", ":", " ", "1", ":", "0">>,
     <<"d", "p", "m", "s", "O", "f", "f", ":", " ", "p", "a", "s", "s", "w", "d", "T", "i", "m", "e", "o", "u", "t">>,
     <<"p", "a", "s", "s", "w", "d", "T", "i", "m", "e", "o", "u", "t", " ", "d", "p", "m", "s", "E", "n", "a", "b", "l", "e", "d", ":", "F", "A", "L", "S", "E">>}

\* The lines of the configurations of more than one line.
MixLines ==
    {<<"d", "p", "m", "s", "E", "n", "a", "b", "l", "e", "d", ":", "\t", "T", "r", "u", "e">>,
     <<"d", "p", "m", "s", "E", "n", "a", "b", "l", "e", "d", ":", " ", "f", "a", "l", "s", "e">>,
     <<"d", "p", "m", "s", "E", "n", "a", "b", "l", "e", "d">>,
     <<"d", "p", "m", "s", "O", "f", "f", ":", "\t", "0", ":", "0", "1", ":", "0", "0">>,
     <<"d", "p", "m", "s", "O", "f", "f", ":", " ", "1", ":", "0", ":", "0">>,
     <<"d", "p", "m", "s", "O", "f", "f">>,
     <<"p", "a", "s", "s", "w", "d", "T", "i", "m", "e", "o", "u", "t", ":", " ", "0", ":", "0", "0", ":", "3", "0">>,
     <<"p", "a", "s", "s", "w", "d", "T", "i", "m", "e", "o", "u", "t", ":", "1", ":", "0">>,
     <<"p", "a", "s", "s", "w", "d", "T", "i", "m", "e", "o", "u", "t", ":", " ", "x">>,
     <<"d", "p", "m", "s", "S", "t", "a", "n", "d", "b", "y", ":", " ", "2", ":", "0", "0", ":", "0", "0">>,
     <<"p", "a", "s", "s", "w", "d", "T", "i", "m", "e", "o", "u", "t", " ", "d", "p", "m", "s", "O", "f", "f", ":", " ", "1", ":", "0">>,
     <<"d", "p", "m", "s", "O", "f", "f", " ", "d", "p", "m", "s", "E", "n", "a", "b", "l", "e", "d", ":", " ", "t", "r", "u", "e">>}

\* Every sequence of n of the lines of L.
SeqsOf(L, n) == [1..n -> L]

\* The configurations load() is run on: empty, every single line, and up
\* to MaxConfigLines of the lines of MixLines.
Configs ==
    {<<>>}
    \cup {<<l>> : l \in TimeLines \cup BoolLines \cup OtherLines
                        \cup TwoKeyLines}
    \cup UNION {SeqsOf(MixLines, n) : n \in 2..MaxConfigLines}

\* --------------------------------------------------------- loading actions
\* The process at the call of XscreensaverSettings::load(), the file
\* ~/.xscreensaver holding the lines of config.
LoadInit ==
    /\ pc = "load"
    /\ config \in Configs
    /\ cursor = 1
    /\ parsed = NoParse
    /\ settings = DefaultSettings
    /\ horizon = MaxTime
    /\ quota = MaxLines
    /\ now = 0
    /\ waited = 0
    /\ timer = None
    /\ locked = None
    /\ chan = <<>>
    /\ disconnected = FALSE
    /\ produced = <<>>
    /\ consumed = <<>>
    /\ last = NoIteration

\* load(): HOME is not set or ~/.xscreensaver cannot be read; expect()
\* panics.
LoadUnreadable ==
    /\ pc = "load"
    /\ cursor = 1
    /\ pc' = "load_failed"
    /\ UNCHANGED <<settings, now, limits, waited, timer, locked, chan,
                   disconnected, produced, consumed, last, loader>>

\* load(): one turn of the for loop over the lines.  A parser that fails
\* panics.
LoadLine ==
    /\ pc = "load"
    /\ cursor <= Len(config)
    /\ LET r == load_line(settings, config[cursor])
       IN  /\ settings' = r.settings
           /\ parsed' = [fn |-> r.fn, line |-> config[cursor],
                         ok |-> r.ok, value |-> r.value]
           /\ pc' = IF r.ok THEN "load" ELSE "load_failed"
    /\ cursor' = cursor + 1
    /\ UNCHANGED <<config, now, limits, waited, timer, locked, chan,
                   disconnected, produced, consumed, last>>

\* load(): the lines are exhausted and the settings are returned to main.
LoadEnd ==
    /\ pc = "load"
    /\ cursor > Len(config)
    /\ pc' = "start"
    /\ UNCHANGED <<settings, now, limits, waited, timer, locked, chan,
                   disconnected, produced, consumed, last, loader>>

LoadNext ==
    \/ LoadUnreadable
    \/ LoadLine
    \/ LoadEnd
    \/ Startup

\* The process from the call of load() to the start of the loop.
LoadSpec == LoadInit /\ [][LoadNext]_vars

\* ------------------------------------------------------------- vocabulary
\* A step that is one pass through the loop body and differs from the pass
\* before it in what it found, read or did.  (last records the state a pass
\* found and all it did; a pass that leaves last as it was found the state
\* the same pass had left, read the same clock and so changed neither
\* TimerState nor the clock, and it invoked nothing, because a pass that
\* invokes the trigger clears the lock timer it found set.)
Iteration == last' # last

\* The step consumes a line from the channel.
ConsumesLine == Len(consumed') = Len(consumed) + 1
ConsumedLine == consumed'[Len(consumed')]
ConsumesLock == ConsumesLine /\ Contains(ConsumedLine, <<"L", "O", "C", "K">>)
ConsumesOther == ConsumesLine /\ ~Contains(ConsumedLine, <<"L", "O", "C", "K">>)

\* The threshold that applies to a lock timer under the marker l.
IdleThreshold == settings.dpms_off
PasswordThreshold == 3 * settings.password_timeout
Applicable(l) == IF l = None THEN IdleThreshold ELSE PasswordThreshold

\* Elapsed time of the lock timer the last pass evaluated.
LastElapsed == last.at - last.eval_timer[1]

\* ---------------------------------------------------------------- claims

\* C1: the Suspend Trigger is invoked once per threshold crossing.  A pass
\* that invokes it invokes it exactly once, evaluated a set lock timer whose
\* elapsed time is above the threshold its marker selects, and leaves the
\* lock timer cleared; it either found the lock timer armed or armed it
\* itself by consuming a lock event; and a pass that starts with the lock
\* timer cleared and consumes no lock event invokes nothing.
C1_OncePerCrossing ==
    [][Iteration =>
          /\ last'.calls > 0 =>
                /\ last'.calls = 1
                /\ last'.eval_timer # None
                /\ last'.at - last'.eval_timer[1] > Applicable(last'.eval_locked)
                /\ timer' = None
                /\ timer # None \/ ConsumesLock
          /\ (timer = None /\ ~ConsumesLock) => last'.calls = 0
      ]_vars

\* Witness of C1: a second crossing in one session, of the non-zero
\* password threshold, after the timer was re-armed.
C1_Witness ==
    /\ last.calls = 1
    /\ last.branch = "passwd"
    /\ PasswordThreshold = 180
    /\ LastElapsed > 180
    /\ timer = None

\* No further event arrives: the channel is empty and the event source
\* has ended or has nothing more to print.
Quiet ==
    /\ chan = <<>>
    /\ disconnected \/ Len(produced) >= quota

\* The lock timer is set with the marker None, and the clock can still pass
\* the idle threshold.
LockedWaiting ==
    /\ pc = "loop"
    /\ timer # None
    /\ locked = None
    /\ timer[1] + settings.dpms_off + TickStep <= horizon

\* The last pass invoked the trigger for the idle threshold.
IdleSuspend == last.branch = "dpms" /\ last.calls = 1

\* C3: from (Some, None), reached from (None, None) by a lock event, with
\* no further event arriving, the trigger is eventually invoked for the
\* idle threshold; the invoking pass leaves (None, Some); and the
\* next pass, if it consumes no line, invokes nothing and re-arms the
\* lock timer to its own clock reading, leaving (Some(new), Some).
C3_IdleSuspendThenRearm ==
    /\ (LockedWaiting /\ Quiet) ~> IdleSuspend
    /\ [](IdleSuspend =>
              /\ last.eval_locked = None
              /\ LastElapsed > settings.dpms_off
              /\ timer = None
              /\ locked = Some(Unit))
    /\ [][(IdleSuspend /\ Iteration /\ ~ConsumesLine) =>
              /\ last'.branch = "woken"
              /\ last'.calls = 0
              /\ timer' = Some(now')
              /\ timer' = Some(last'.at)
              /\ locked' = Some(Unit)
         ]_vars

\* Witness of C3: the pass after an idle-threshold suspend (threshold 60)
\* has re-armed the lock timer, no line having arrived after the first.
C3_Witness ==
    /\ consumed = <<LineLock>>
    /\ produced = consumed
    /\ settings.dpms_off = 60
    /\ last.branch = "woken"
    /\ last.status = None
    /\ timer = Some(now)
    /\ now > 60
    /\ locked = Some(Unit)

\* The most recently consumed line is an Other event: an Other event has
\* been consumed and no lock event since.
SinceOther ==
    /\ consumed # <<>>
    /\ ~Contains(consumed[Len(consumed)], <<"L", "O", "C", "K">>)

\* C2: from the pass that consumes an Other event until a lock event is
\* consumed, TimerState is (None, None) and no pass (each is the last pass
\* in the state it leaves) invokes the Suspend Trigger.
C2_OtherStopsSuspends ==
    SinceOther => (timer = None /\ locked = None /\ last.calls = 0)

\* Witness of C2: an Other event consumed in a session in which a suspend
\* had already fired.
C2_Witness ==
    /\ SinceOther
    /\ last.status = Some(LineUnblank)
    /\ last.entry_locked = Some(Unit)
    /\ timer = None
    /\ locked = None

\* C4: whenever a pass evaluates a set lock timer, it invokes the trigger
\* iff the elapsed time is strictly above the idle threshold (marker None)
\* or strictly above three times the raw password threshold (marker Some);
\* at exactly the threshold TimerState stays as evaluated.
C4_StrictThreshold ==
    last.eval_timer # None =>
        /\ last.eval_locked = None =>
              (last.calls = 1 <=> LastElapsed > settings.dpms_off)
        /\ last.eval_locked # None =>
              (last.calls = 1 <=> LastElapsed > 3 * settings.password_timeout)
        /\ LastElapsed = Applicable(last.eval_locked) =>
              /\ last.calls = 0
              /\ timer = last.eval_timer
              /\ locked = last.eval_locked

\* Witness of C4: marker Some, elapsed exactly 3 x 60 while the idle
\* threshold is 0; the trigger has not fired.
C4_Witness ==
    /\ last.eval_timer # None
    /\ last.eval_locked = Some(Unit)
    /\ settings.password_timeout = 60
    /\ settings.dpms_off = 0
    /\ LastElapsed = 180
    /\ last.calls = 0
    /\ timer = last.eval_timer

\* C5: a pass that consumes a lock event evaluates lockTimer = the time of
\* the event and the marker it found; if the marker was Some it stays Some,
\* and a trigger invoked by a pass that found the marker Some and consumed
\* no Other event is decided by the password threshold.
C5_LockKeepsMarker ==
    [][Iteration =>
          /\ ConsumesLock =>
                /\ last'.eval_timer = Some(now)
                /\ last'.eval_locked = locked
                /\ locked # None => locked' = Some(Unit)
          /\ (locked # None /\ ~ConsumesOther /\ last'.calls > 0) =>
                /\ last'.branch = "passwd"
                /\ last'.at - last'.eval_timer[1] > 3 * settings.password_timeout
      ]_vars

\* Witness of C5: a lock event consumed while the marker is Some and the
\* idle threshold (0) is already exceeded, but not the password threshold.
C5_Witness ==
    /\ last.status # None
    /\ Contains(last.status[1], <<"L", "O", "C", "K">>)
    /\ last.entry_locked = Some(Unit)
    /\ last.eval_timer # None
    /\ settings.dpms_off = 0
    /\ settings.password_timeout = 60
    /\ LastElapsed > 0
    /\ last.calls = 0
    /\ locked = Some(Unit)
    /\ timer = last.eval_timer

\* C6: a pass that consumes an Other event leaves TimerState (None, None),
\* whatever the state before, and so does any run of such passes.
C6_OtherClearsBoth ==
    [][ConsumesOther =>
          /\ timer' = None
          /\ locked' = None
          /\ last'.eval_timer = None
          /\ last'.eval_locked = None
      ]_vars

\* Witness of C6: an Other event consumed in state (Some, Some).
C6_Witness ==
    /\ last.status = Some(LineUnblank)
    /\ last.entry_timer # None
    /\ last.entry_locked # None
    /\ timer = None
    /\ locked = None

\* C7: once the loop has started, no step terminates the process.
C7_LoopNeverAborts ==
    pc # "panicked"

\* C8: when a pass evaluates a lock timer above its threshold, TimerState
\* becomes (None, Some) and the trigger is invoked whether or not the
\* inhibitor is active; the command is issued iff the inhibitor is not.
C8_InhibitorLeavesTimers ==
    (last.eval_timer # None /\ LastElapsed > Applicable(last.eval_locked)) =>
        /\ timer = None
        /\ locked = Some(Unit)
        /\ last.calls = 1
        /\ last.inhibited => last.cmds = 0
        /\ ~last.inhibited => last.cmds = 1

\* Witness of C8: the idle threshold is exceeded while the marker file was
\* modified an hour ago.
C8_Witness ==
    /\ last.branch = "dpms"
    /\ last.marker = Modified(BootWall - 3600)
    /\ last.inhibited
    /\ last.cmds = 0
    /\ timer = None
    /\ locked = Some(Unit)

\* SystemTime::now() of the last pass, and the age of the marker it read.
LastWall == BootWall + last.at
MarkerAge == LastWall - last.marker.modified

C10_FifoDelivery ==
    [][/\ produced' = consumed' \o chan'
       /\ Len(consumed') <= Len(produced')
       /\ consumed' = SubSeq(produced', 1, Len(consumed'))
       /\ consumed' # consumed =>
             /\ chan # <<>>
             /\ chan' = Tail(chan)
             /\ consumed' = Append(consumed, produced[Len(consumed) + 1])
      ]_vars

\* Witness of C10: two different lines, both queued before the loop took
\* the first, consumed in the order produced.
C10_Witness ==
    /\ produced = <<LineUnblank, LineLock>>
    /\ consumed = produced
    /\ chan = <<>>
    /\ last.entry_timer = None
    /\ last.at = 0

\* The event source has ended and the channel is drained: from now on
\* recv_timeout returns Err(Disconnected).
SourceEnded == pc = "loop" /\ disconnected /\ chan = <<>>

\* The lock timer is set and the clock can still pass the threshold that
\* applies to it.
ArmedWithRoom ==
    /\ timer # None
    /\ timer[1] + Applicable(locked) + TickStep <= horizon

C12_ExitsOnlyWhenDisabled ==
    /\ ~settings.dpms_enabled =>
          /\ pc \in {"start", "exited"}
          /\ produced = <<>>
          /\ ~disconnected
          /\ last = NoIteration
    /\ settings.dpms_enabled => pc \in {"start", "loop"}

\* C16: the event is applied before the timers are evaluated.  A pass that
\* consumes an Other event evaluates (None, None), whatever it found, takes
\* no branch, does not invoke the Suspend Trigger and issues no command.
C16_OtherPreemptsTimers ==
    [][ConsumesOther =>
          /\ last'.status = Some(ConsumedLine)
          /\ last'.eval_timer = None
          /\ last'.eval_locked = None
          /\ last'.branch = "none"
          /\ last'.calls = 0
          /\ last'.cmds = 0
          /\ timer' = None
          /\ locked' = None
      ]_vars

\* Witness of C16: a pass consumed an Other event and invoked nothing although
\* it found a lock timer that was above its threshold before the pass began.
C16_Witness ==
    /\ last.status # None
    /\ ~Contains(last.status[1], <<"L", "O", "C", "K">>)
    /\ last.entry_timer # None
    /\ Applicable(last.entry_locked) = 60
    /\ last.at - last.entry_timer[1] > 60 + TickStep
    /\ last.calls = 0

\* TimerState is (None, Some): the lock timer is cleared and the marker set.
MarkerOnly == timer = None /\ locked # None

\* C17 as stated: (None, Some) is left by a pass only if that pass invoked
\* the trigger, and the pass after it always leaves it: for (Some(now), Some)
\* if it consumes no line, for (None, None) if it consumes an Other event;
\* (None, Some) is never left by two passes in a row.
C17_MarkerOnlyNeverTwice ==
    /\ [](MarkerOnly => last.calls = 1)
    /\ [][(MarkerOnly /\ Iteration) =>
              /\ ~(timer' = None /\ locked' # None)
              /\ ~ConsumesLine => (timer' = Some(now') /\ locked' = Some(Unit))
              /\ ConsumesOther => (timer' = None /\ locked' = None)
         ]_vars

\* C17, amended: (None, Some) is left by a pass only if that pass invoked the
\* trigger.  The pass after it leaves (Some(now), Some) if it consumes no
\* line and (None, None) if it consumes an Other event; if it consumes a
\* lock event it arms the lock timer at the event, and leaves (None, Some)
\* again, the trigger invoked again, exactly when the password threshold is
\* already exceeded at its clock reading, and (Some(event time), Some)
\* otherwise.
C17_MarkerOnlyTransient ==
    /\ [](MarkerOnly => last.calls = 1)
    /\ [][(MarkerOnly /\ Iteration) =>
              /\ ~ConsumesLine =>
                    /\ timer' = Some(now')
                    /\ locked' = Some(Unit)
                    /\ last'.calls = 0
              /\ ConsumesOther => (timer' = None /\ locked' = None)
              /\ ConsumesLock =>
                    IF last'.at - now > PasswordThreshold
                    THEN /\ timer' = None
                         /\ locked' = Some(Unit)
                         /\ last'.branch = "passwd"
                         /\ last'.calls = 1
                    ELSE /\ timer' = Some(now)
                         /\ locked' = Some(Unit)
                         /\ last'.calls = 0
         ]_vars

\* Witness of C17: a pass that found (None, Some) consumed a lock event,
\* invoked the trigger and left (None, Some) again.
C17_Witness ==
    /\ last.entry_timer = None
    /\ last.entry_locked = Some(Unit)
    /\ last.status = Some(LineLock)
    /\ last.calls = 1
    /\ MarkerOnly

\* The step is a pass that consumes no line and whose clock reading is not
\* above the threshold of a lock timer it found set.
QuietPassBelowThreshold ==
    /\ Iteration
    /\ ~ConsumesLine
    /\ timer # None => last'.at - timer[1] <= Applicable(locked)

\* A pass that changes nothing: TimerState is kept, the trigger is not
\* invoked, no command is issued and no arm that prints is taken.
PassChangesNothing ==
    /\ timer' = timer
    /\ locked' = locked
    /\ last'.calls = 0
    /\ last'.cmds = 0
    /\ last'.branch = "none"

\* C18 as stated: every pass that receives no event and finds no threshold
\* exceeded leaves TimerState unchanged, invokes nothing and prints nothing.
C18_QuietPassIsNoOp ==
    [][QuietPassBelowThreshold => PassChangesNothing]_vars

\* C18, amended: a pass that receives no event, finds a TimerState other
\* than (None, Some) and finds no threshold exceeded leaves TimerState
\* unchanged, invokes nothing and prints nothing; a pass that receives no
\* event and finds (None, Some) prints and re-arms the lock timer.
C18_QuietPassIsNoOpUnlessWoken ==
    [][QuietPassBelowThreshold =>
          IF MarkerOnly
          THEN /\ last'.branch = "woken"
               /\ timer' = Some(last'.at)
               /\ locked' = locked
               /\ last'.calls = 0
          ELSE PassChangesNothing
      ]_vars

\* Witness of C18: a timeout pass found (Some(t), Some) with the password
\* threshold of 180 s not exceeded and kept it.
C18_Witness ==
    /\ last.recv = "Timeout"
    /\ last.entry_timer # None
    /\ last.entry_locked = Some(Unit)
    /\ PasswordThreshold = 180
    /\ LastElapsed \in 1..180
    /\ last.branch = "none"
    /\ timer = last.entry_timer
    /\ locked = Some(Unit)

\* The settings under which a lock session reaches its first suspend at
\* once, so that the clock has room for the password threshold after it.
SessionInit ==
    /\ InitAt(SessionMaxTime, SessionLines)
    /\ settings.dpms_enabled
    /\ settings.dpms_off = 0

SessionSpec == SessionInit /\ [][Next]_vars /\ Fairness

\* The last pass re-armed the lock timer after a suspend, no further event
\* arrives and the clock can still pass the password threshold.
Rearmed ==
    /\ pc = "loop"
    /\ last.branch = "woken"
    /\ timer = Some(last.at)
    /\ locked = Some(Unit)
    /\ Quiet
    /\ last.at + PasswordThreshold + TickStep <= horizon

\* The last pass invoked the trigger for the password threshold.
PasswordSuspend == last.branch = "passwd" /\ last.calls = 1

\* C19: within a lock session suspends repeat.  Once the lock timer is
\* re-armed and no further event arrives, the trigger is invoked again,
\* by a pass whose clock reading is more than 3 x passwdTimeout after the
\* re-arm; that pass leaves (None, Some), from where the next pass re-arms
\* again.  When 3 x passwdTimeout is 0 the pass right after the re-arm
\* invokes the trigger as soon as its clock reading is later than the
\* re-arm, which it is after every timeout of recv_timeout.
C19_SuspendsRepeat ==
    /\ Rearmed ~> PasswordSuspend
    /\ [](PasswordSuspend =>
              /\ LastElapsed > PasswordThreshold
              /\ timer = None
              /\ locked = Some(Unit))
    /\ [][(PasswordSuspend /\ Iteration /\ ~ConsumesLine) =>
              /\ last'.branch = "woken"
              /\ timer' = Some(last'.at)
              /\ locked' = Some(Unit)
         ]_vars
    /\ [][(last.branch = "woken" /\ PasswordThreshold = 0
             /\ Iteration /\ ~ConsumesLine) =>
              /\ last'.recv = "Timeout" => last'.at > last.at
              /\ last'.at > last.at =>
                    (last'.branch = "passwd" /\ last'.calls = 1)
         ]_vars

\* Witness of C19: the third suspend of one lock session, the second for the
\* password threshold of 180 s, no event having arrived after the lock event.
C19_Witness ==
    /\ consumed = <<LineLock>>
    /\ produced = consumed
    /\ PasswordThreshold = 180
    /\ PasswordSuspend
    /\ last.eval_timer # None
    /\ last.eval_timer[1] > 180

\* C20: a lock event restarts the countdown.  A pass that consumes a lock
\* event evaluates the lock timer set to the time of the event, whatever it
\* found, and invokes the trigger only if the threshold is exceeded since
\* the event: never when the applicable threshold is positive, in which
\* case it leaves the timer at the event.  The lock timer is set to a new
\* value by a lock event or a re-arm only, so the elapsed time every
\* invocation is decided on runs from the most recent of them, and lock
\* events less than a threshold apart keep the trigger from being invoked.
C20_LockRestartsCountdown ==
    /\ [][ConsumesLock =>
              /\ last'.eval_timer = Some(now)
              /\ last'.eval_locked = locked
              /\ last'.calls = 1 <=> last'.at - now > Applicable(locked)
              /\ Applicable(locked) > 0 =>
                    /\ last'.calls = 0
                    /\ timer' = Some(now)
                    /\ locked' = locked
         ]_vars
    /\ [][(timer' # timer /\ timer' # None) =>
              \/ ConsumesLock /\ timer' = Some(now)
              \/ last'.branch = "woken" /\ timer' = Some(last'.at)
         ]_vars

\* Witness of C20: a lock event was consumed when the lock timer found was
\* already above the idle threshold of 60 s; nothing was invoked and the
\* timer now runs from the event.
C20_Witness ==
    /\ last.status = Some(LineLock)
    /\ last.entry_timer # None
    /\ last.entry_locked = None
    /\ settings.dpms_off = 60
    /\ last.at - last.entry_timer[1] > 60
    /\ last.calls = 0
    /\ timer = last.eval_timer
    /\ timer[1] > last.entry_timer[1]

\* ------------------------------------------------ vocabulary of the parsers
\* The positions of the colons of a line, and the first and last of them.
Colons(line) == {i \in 1..Len(line) : line[i] = ":"}
FirstOf(S) == CHOOSE i \in S : \A j \in S : i <= j
LastOf(S) == CHOOSE i \in S : \A j \in S : j <= i

\* The field that begins after the colon at p and ends before the next
\* colon or with the line, and its index counted from the rightmost field.
FieldAfter(line, p) ==
    LET next == {q \in Colons(line) : q > p}
    IN  SubSeq(line, p + 1,
               IF next = {} THEN Len(line) ELSE FirstOf(next) - 1)
IndexFromRight(line, p) == Cardinality({q \in Colons(line) : q > p})

\* The positions of t that hold no white space.
Inked(t) == {i \in 1..Len(t) : t[i] \notin WhiteSpace}

\* t, white space around it aside, is a non-negative integer: digits, at
\* least one, that a "+" may precede.
IsNumeral(t) ==
    /\ Inked(t) # {}
    /\ LET lo == FirstOf(Inked(t))
           hi == LastOf(Inked(t))
           from == IF t[lo] = "+" THEN lo + 1 ELSE lo
       IN  /\ from <= hi
           /\ \A i \in from..hi : \E v \in 1..10 : Digits[v] = t[i]

\* The sum of f over the finite set S.
RECURSIVE SumOver(_, _)
SumOver(S, f) ==
    IF S = {}
    THEN 0
    ELSE LET x == CHOOSE x \in S : TRUE
         IN  f[x] + SumOver(S \ {x}, f)

\* 10 to the power n.
RECURSIVE pow10(_)
pow10(n) == IF n = 0 THEN 1 ELSE 10 * pow10(n - 1)

\* The integer the numeral t names.
NumeralValue(t) ==
    LET hi == LastOf(Inked(t))
        ds == {i \in Inked(t) : t[i] # "+"}
    IN  SumOver(ds, [i \in ds |->
                       (CHOOSE v \in 0..9 : Digits[v + 1] = t[i])
                       * pow10(hi - i)])

\* Every field after the first colon is a non-negative integer, and the sum
\* of field x 60 x index over these fields.
AllNumerals(line) ==
    \A p \in Colons(line) : IsNumeral(FieldAfter(line, p))
WeightedSum(line) ==
    SumOver(Colons(line),
            [p \in Colons(line) |->
                NumeralValue(FieldAfter(line, p))
                * 60 * IndexFromRight(line, p)])

\* C13 as stated: for every line parse_time is called on, it returns the sum
\* over the fields after the first colon of field x 60 x index from the
\* right, and it fails if one of these fields is not a non-negative integer.
C13_WeightedSum ==
    parsed.fn = "parse_time" =>
        IF AllNumerals(parsed.line)
        THEN parsed.ok /\ parsed.value = WeightedSum(parsed.line)
        ELSE ~parsed.ok

\* C13, amended: parse_time fails on a line without a colon; on a line with
\* a colon it returns the sum over the fields after the first colon of
\* field x 60 x index from the right if each of them is a non-negative
\* integer, and fails otherwise.
C13_WeightedSumAfterColon ==
    parsed.fn = "parse_time" =>
        IF Colons(parsed.line) # {} /\ AllNumerals(parsed.line)
        THEN parsed.ok /\ parsed.value = WeightedSum(parsed.line)
        ELSE ~parsed.ok

\* Witness of C13: a value of three fields, hours 2, minutes 1, seconds 7,
\* has been parsed to 2 x 120 + 1 x 60 + 7 x 0.
C13_Witness ==
    /\ parsed.fn = "parse_time"
    /\ parsed.ok
    /\ Cardinality(Colons(parsed.line)) = 3
    /\ parsed.line[Len(parsed.line)] = "7"
    /\ parsed.value = 300

\* t, white space around it aside and whatever the case of its letters, is
\* the word w (given in lower case).
Names(t, w) ==
    /\ Inked(t) # {}
    /\ LET lo == FirstOf(Inked(t))
           hi == LastOf(Inked(t))
       IN  /\ hi - lo + 1 = Len(w)
           /\ \A i \in 1..Len(w) :
                 \/ t[lo + i - 1] = w[i]
                 \/ \E k \in 1..26 :
                       LowerCase[k] = w[i] /\ UpperCase[k] = t[lo + i - 1]

\* The text after the last colon of a line that has one.
AfterLastColon(line) == FieldAfter(line, LastOf(Colons(line)))

\* C14: for every line parse_bool is called on, it fails if the line has no
\* colon; else it returns TRUE if the text after the last colon, trimmed and
\* lower-cased, is "true", FALSE if it is "false", and fails if it is
\* neither.
C14_BoolAfterLastColon ==
    parsed.fn = "parse_bool" =>
        IF Colons(parsed.line) = {}
        THEN ~parsed.ok
        ELSE IF Names(AfterLastColon(parsed.line), <<"t", "r", "u", "e">>)
        THEN parsed.ok /\ parsed.value = TRUE
        ELSE IF Names(AfterLastColon(parsed.line),
                      <<"f", "a", "l", "s", "e">>)
        THEN parsed.ok /\ parsed.value = FALSE
        ELSE ~parsed.ok

\* Witness of C14: a line whose text after the first colon is "false" and
\* whose text after the last colon is "TRUE" has been parsed to TRUE.
C14_Witness ==
    /\ parsed.fn = "parse_bool"
    /\ parsed.ok
    /\ parsed.value = TRUE
    /\ Cardinality(Colons(parsed.line)) = 2
    /\ Names(FieldAfter(parsed.line, FirstOf(Colons(parsed.line))),
             <<"f", "a", "l", "s", "e">>)
    /\ AfterLastColon(parsed.line) = <<"T", "R", "U", "E">>

\* The first of the key names, in the order of the arms of load(), that a
\* line contains.
MatchedKey(line) ==
    IF Contains(line, KeyEnabled) THEN "dpmsEnabled"
    ELSE IF Contains(line, KeyOff) THEN "dpmsOff"
    ELSE IF Contains(line, KeyPasswd) THEN "passwdTimeout"
    ELSE "none"

\* The indices of the lines of the configuration that contain the key name
\* k, and of those matched to the key called n.
Containing(k) == {i \in 1..Len(config) : Contains(config[i], k)}
MatchedTo(n) == {i \in 1..Len(config) : MatchedKey(config[i]) = n}

\* A turn of the loop of load() on a line that contains no key name changes
\* no setting and does not fail.
SkipsOtherLines ==
    [][(pc = "load" /\ cursor' = cursor + 1
          /\ MatchedKey(config[cursor]) = "none") =>
           (settings' = settings /\ pc' = "load")]_vars

\* C15 as stated: lines without a key name are skipped; when load() has
\* returned, a field whose key name no line contains has its zero value,
\* and any other field is the parse of a line that contains its key name.
C15_FieldsFromContainingLines ==
    /\ SkipsOtherLines
    /\ [](pc = "start" =>
            /\ IF Containing(KeyEnabled) = {}
               THEN settings.dpms_enabled = FALSE
               ELSE \E i \in Containing(KeyEnabled) :
                       /\ parse_bool(config[i]).ok
                       /\ settings.dpms_enabled = parse_bool(config[i]).value
            /\ IF Containing(KeyOff) = {}
               THEN settings.dpms_off = 0
               ELSE \E i \in Containing(KeyOff) :
                       /\ parse_time(config[i]).ok
                       /\ settings.dpms_off = parse_time(config[i]).value
            /\ IF Containing(KeyPasswd) = {}
               THEN settings.password_timeout = 0
               ELSE \E i \in Containing(KeyPasswd) :
                       /\ parse_time(config[i]).ok
                       /\ settings.password_timeout
                              = parse_time(config[i]).value)

\* C15, amended: lines without a key name are skipped; a line counts for
\* the first key name it contains, in the order dpmsEnabled, dpmsOff,
\* passwdTimeout; when load() has returned, every line that counts for a
\* key has parsed, a field for whose key no line counts has its zero value
\* (so has a field whose key name no line contains), and any other field
\* is the parse of the last line that counts for its key.
C15_FieldsFromMatchedLines ==
    /\ SkipsOtherLines
    /\ [](pc = "start" =>
            /\ \A i \in MatchedTo("dpmsEnabled") : parse_bool(config[i]).ok
            /\ \A i \in MatchedTo("dpmsOff") \cup MatchedTo("passwdTimeout") :
                   parse_time(config[i]).ok
            /\ settings.dpms_enabled =
                   IF MatchedTo("dpmsEnabled") = {}
                   THEN FALSE
                   ELSE parse_bool(
                            config[LastOf(MatchedTo("dpmsEnabled"))]).value
            /\ settings.dpms_off =
                   IF MatchedTo("dpmsOff") = {}
                   THEN 0
                   ELSE parse_time(config[LastOf(MatchedTo("dpmsOff"))]).value
            /\ settings.password_timeout =
                   IF MatchedTo("passwdTimeout") = {}
                   THEN 0
                   ELSE parse_time(
                            config[LastOf(MatchedTo("passwdTimeout"))]).value
            /\ Containing(KeyEnabled) = {} => settings.dpms_enabled = FALSE
            /\ Containing(KeyOff) = {} => settings.dpms_off = 0
            /\ Containing(KeyPasswd) = {} => settings.password_timeout = 0)

\* Witness of C15: load() has returned from a configuration whose only line
\* contains the key names passwdTimeout and dpmsOff and the value 1:0; the
\* line set dpms_off and left password_timeout at zero.
C15_Witness ==
    /\ pc = "start"
    /\ Len(config) = 1
    /\ Contains(config[1], KeyPasswd)
    /\ Contains(config[1], KeyOff)
    /\ settings.dpms_off = 60
    /\ settings.password_timeout = 0

====
